---- MODULE Spec2Model ----
(***************************************************************************)
(* Toy robot simulator (robot.py, main.py, test_robot.py).                 *)
(*                                                                         *)
(* A text line is a sequence of one-character strings, so that             *)
(* str.split, int() and str() are computed character by character.  Python *)
(* strings that the program only compares or prints (verbs, compass        *)
(* directions, messages, the report) are TLA+ strings.  A numpy vector is  *)
(* a tuple of three integers; the headings and positions the program       *)
(* stores are whole numbers, which floating point holds exactly.           *)
(***************************************************************************)
EXTENDS Integers, Sequences, FiniteSets, TLC

VARIABLES
    r,          \* the Robot instance: [pos, heading_vector, placed]
    input_str,  \* the line last read by the driver
    verb,       \* first component of the last parse_command_input result
    params,     \* second component of the last parse_command_input result
    success,    \* local `success` of the last execute_parsed_command call
    output,     \* value returned by the last execute_parsed_command call
    exit_code,  \* <<>> while the process runs, <<c>> once it ended with code c
    commands,   \* the command list handed to exec_robot_commands
    idx         \* how many entries of `commands` the harness has consumed

vars == <<r, input_str, verb, params, success, output, exit_code, commands, idx>>

-----------------------------------------------------------------------------
(* Bounds of the model *)

\* PLACE lines are generated for coordinates up to Margin outside the table
Margin == 1
\* longest run of MOVE commands in a generated command list
MaxMoves == 5
\* longest run of LEFT and RIGHT commands in a generated command list
MaxTurns == 4

-----------------------------------------------------------------------------
(* Module constants of robot.py *)

TABLE_DIM_MAX == 4
TABLE_DIM_MIN == 0

\* ROT_LEFT built with 180 degrees
ROT_LEFT_half_turn == << <<-1, 0, 0>>, <<0, -1, 0>>, <<0, 0, 1>> >>

\* ROT_LEFT with the sign of the angle lost
ROT_LEFT_clockwise == << <<0, 1, 0>>, <<-1, 0, 0>>, <<0, 0, 1>> >>

\* scipy Rotation.from_euler('xyz', [0, 0, 90], degrees=True) as its matrix
ROT_LEFT == << <<0, -1, 0>>, <<1, 0, 0>>, <<0, 0, 1>> >>

\* ROT_RIGHT with the sign of the angle lost
ROT_RIGHT_anticlockwise == << <<0, -1, 0>>, <<1, 0, 0>>, <<0, 0, 1>> >>

\* scipy Rotation.from_euler('xyz', [0, 0, -90], degrees=True) as its matrix
ROT_RIGHT == << <<0, 1, 0>>, <<-1, 0, 0>>, <<0, 0, 1>> >>

\* Python's None as the empty tuple; a value v that may be None is held as <<v>>
None == <<>>

COMMANDS_AND_ARGS == <<
    <<"PLACE", <<"int", "int", "str">> >>,
    <<"MOVE", <<>> >>,
    <<"LEFT", <<>> >>,
    <<"RIGHT", <<>> >>,
    <<"REPORT", <<>> >>,
    <<"HELP", <<>> >>,
    <<"EXIT", <<>> >> >>

\* the table with the vectors of WEST and EAST exchanged
DIRVECTOR_east_west_swapped ==
    [NORTH |-> <<0, 1, 0>>,
     SOUTH |-> <<0, -1, 0>>,
     WEST  |-> <<1, 0, 0>>,
     EAST  |-> <<-1, 0, 0>>]

DIRVECTOR_FROM_COMPASS_DIRECTION ==
    [NORTH |-> <<0, 1, 0>>,
     SOUTH |-> <<0, -1, 0>>,
     WEST  |-> <<-1, 0, 0>>,
     EAST  |-> <<1, 0, 0>>]

NOT_PLACED_MSG == "Error: please first issue a in-bounds PLACE command"

-----------------------------------------------------------------------------
(* Python and numpy primitives the program calls *)

\* numpy: a + b on two vectors
np_add(a, b) == [i \in 1..Len(a) |-> a[i] + b[i]]

\* scipy: Rotation.apply(v), the matrix-vector product
apply(rot, v) == [i \in 1..3 |-> rot[i][1] * v[1] + rot[i][2] * v[2] + rot[i][3] * v[3]]

\* numpy: np.round(v, 0); the components are whole numbers up to a
\* floating-point residue far below 1/2, which is what the rounding removes
np_round(v) == [i \in 1..Len(v) |-> v[i]]

\* Python: "".join(chars), the str a character sequence stands for
RECURSIVE str(_)
str(cs) == IF cs = <<>> THEN "" ELSE Head(cs) \o str(Tail(cs))

\* Python: s.split(sep) for a one-character separator
RECURSIVE split(_, _)
split(cs, sep) ==
    IF \A i \in 1..Len(cs) : cs[i] # sep
    THEN <<cs>>
    ELSE LET i == CHOOSE k \in 1..Len(cs) :
                      cs[k] = sep /\ \A j \in 1..(k-1) : cs[j] # sep
         IN <<SubSeq(cs, 1, i - 1)>> \o split(SubSeq(cs, i + 1, Len(cs)), sep)

DIGITS == <<"0", "1", "2", "3", "4", "5", "6", "7", "8", "9">>

IsDigit(c) == \E d \in 1..Len(DIGITS) : DIGITS[d] = c

DigitValue(c) == (CHOOSE d \in 1..Len(DIGITS) : DIGITS[d] = c) - 1

WHITESPACE == {" ", "\t"}

\* a strip that also drops a fraction, as int(float(s)) would truncate
RECURSIVE strip_drops_fraction(_)
strip_drops_fraction(cs) ==
    IF cs = <<>> THEN cs
    ELSE IF Head(cs) \in WHITESPACE THEN strip_drops_fraction(Tail(cs))
    ELSE IF cs[Len(cs)] \in WHITESPACE \/ (\E i \in 1..Len(cs) : cs[i] = ".")
         THEN strip_drops_fraction(SubSeq(cs, 1, Len(cs) - 1))
    ELSE cs

\* Python: s.strip(), as int() applies it to its argument
RECURSIVE strip(_)
strip(cs) ==
    IF cs = <<>> THEN cs
    ELSE IF Head(cs) \in WHITESPACE THEN strip(Tail(cs))
    ELSE IF cs[Len(cs)] \in WHITESPACE THEN strip(SubSeq(cs, 1, Len(cs) - 1))
    ELSE cs

\* the digits part of an int() literal: digits, single underscores between them
IsDigitString(cs) ==
    /\ cs # <<>>
    /\ IsDigit(cs[1])
    /\ IsDigit(cs[Len(cs)])
    /\ \A i \in 1..Len(cs) : IsDigit(cs[i]) \/ cs[i] = "_"
    /\ \A i \in 1..(Len(cs) - 1) : ~(cs[i] = "_" /\ cs[i + 1] = "_")

RECURSIVE DigitsValue(_, _)
DigitsValue(cs, acc) ==
    IF cs = <<>> THEN acc
    ELSE IF Head(cs) = "_" THEN DigitsValue(Tail(cs), acc)
    ELSE DigitsValue(Tail(cs), 10 * acc + DigitValue(Head(cs)))

\* Python: int(s) does not raise ValueError
int_ok(cs) ==
    LET t == strip(cs)
    IN  IF t # <<>> /\ Head(t) \in {"+", "-"}
        THEN IsDigitString(Tail(t))
        ELSE IsDigitString(t)

\* Python: int(s), where int_ok(s)
int(cs) ==
    LET t == strip(cs)
    IN  IF Head(t) = "-" THEN 0 - DigitsValue(Tail(t), 0)
        ELSE IF Head(t) = "+" THEN DigitsValue(Tail(t), 0)
        ELSE DigitsValue(t, 0)

\* Python: str(n) for an integer, as the f-string in report formats it
int_str(n) == ToString(n)

-----------------------------------------------------------------------------
(* robot.py *)

get_compass_direction_from_dirvec(dirvec) ==
    IF Len(dirvec) # 3 THEN "ERROR"
    ELSE IF dirvec = <<0, 1, 0>> THEN "NORTH"
    ELSE IF dirvec = <<0, -1, 0>> THEN "SOUTH"
    ELSE IF dirvec = <<-1, 0, 0>> THEN "WEST"
    ELSE IF dirvec = <<1, 0, 0>> THEN "EAST"
    ELSE "ERROR"

\* Robot.__init__
Robot == [pos |-> <<0, 0, 0>>, heading_vector |-> <<0, 0, 0>>, placed |-> FALSE]

\* check_pos_in_bounds with the y test repeating the x test
check_pos_in_bounds_xx(pos) ==
    IF pos[1] < TABLE_DIM_MIN \/ pos[1] > TABLE_DIM_MAX THEN FALSE
    ELSE IF pos[1] < TABLE_DIM_MIN \/ pos[1] > TABLE_DIM_MAX THEN FALSE
    ELSE TRUE

\* Robot.check_pos_in_bounds
check_pos_in_bounds(pos) ==
    IF pos[1] < TABLE_DIM_MIN \/ pos[1] > TABLE_DIM_MAX THEN FALSE
    ELSE IF pos[2] < TABLE_DIM_MIN \/ pos[2] > TABLE_DIM_MAX THEN FALSE
    ELSE TRUE

\* place looking the direction up with a zero vector as the default, stored
\* before the name is rejected
place_zero_heading(self, x, y, compass_direction) ==
    LET place_pos == <<x, y, 0>>
    IN  IF ~check_pos_in_bounds(place_pos)
        THEN [ret |-> FALSE, self |-> self]
        ELSE IF compass_direction \notin DOMAIN DIRVECTOR_FROM_COMPASS_DIRECTION
        THEN [ret |-> FALSE, self |-> [self EXCEPT !.heading_vector = <<0, 0, 0>>]]
        ELSE [ret |-> TRUE,
              self |-> [pos |-> place_pos,
                        heading_vector |->
                            DIRVECTOR_FROM_COMPASS_DIRECTION[compass_direction],
                        placed |-> TRUE]]

\* place marking the robot as not placed when it rejects the position
place_unplaces(self, x, y, compass_direction) ==
    LET place_pos == <<x, y, 0>>
    IN  IF ~check_pos_in_bounds(place_pos)
        THEN [ret |-> FALSE, self |-> [self EXCEPT !.placed = FALSE]]
        ELSE IF compass_direction \notin DOMAIN DIRVECTOR_FROM_COMPASS_DIRECTION
        THEN [ret |-> FALSE, self |-> self]
        ELSE [ret |-> TRUE,
              self |-> [pos |-> place_pos,
                        heading_vector |->
                            DIRVECTOR_FROM_COMPASS_DIRECTION[compass_direction],
                        placed |-> TRUE]]

\* place keeping the heading of a robot that is already placed
place_keeps_heading(self, x, y, compass_direction) ==
    LET place_pos == <<x, y, 0>>
    IN  IF ~check_pos_in_bounds(place_pos)
        THEN [ret |-> FALSE, self |-> self]
        ELSE IF compass_direction \notin DOMAIN DIRVECTOR_FROM_COMPASS_DIRECTION
        THEN [ret |-> FALSE, self |-> self]
        ELSE [ret |-> TRUE,
              self |-> [pos |-> place_pos,
                        heading_vector |->
                            IF self.placed THEN self.heading_vector
                            ELSE DIRVECTOR_FROM_COMPASS_DIRECTION[compass_direction],
                        placed |-> TRUE]]

\* place storing the position before it looks the direction up
place_pos_first(self, x, y, compass_direction) ==
    LET place_pos == <<x, y, 0>>
    IN  IF ~check_pos_in_bounds(place_pos)
        THEN [ret |-> FALSE, self |-> self]
        ELSE IF compass_direction \notin DOMAIN DIRVECTOR_FROM_COMPASS_DIRECTION
        THEN [ret |-> FALSE, self |-> [self EXCEPT !.pos = place_pos]]
        ELSE [ret |-> TRUE,
              self |-> [pos |-> place_pos,
                        heading_vector |->
                            DIRVECTOR_FROM_COMPASS_DIRECTION[compass_direction],
                        placed |-> TRUE]]

\* Robot.place: [ret |-> returned bool, self |-> the robot afterwards]
place(self, x, y, compass_direction) ==
    LET place_pos == <<x, y, 0>>
    IN  IF ~check_pos_in_bounds(place_pos)
        THEN [ret |-> FALSE, self |-> self]
        ELSE IF compass_direction \notin DOMAIN DIRVECTOR_FROM_COMPASS_DIRECTION
        THEN [ret |-> FALSE, self |-> self]
        ELSE [ret |-> TRUE,
              self |-> [pos |-> place_pos,
                        heading_vector |->
                            DIRVECTOR_FROM_COMPASS_DIRECTION[compass_direction],
                        placed |-> TRUE]]

\* move testing the current position instead of the new one
move_checks_old_pos(self) ==
    IF ~self.placed
    THEN [ret |-> FALSE, self |-> self]
    ELSE LET new_pos == np_add(self.pos, self.heading_vector)
         IN  IF ~check_pos_in_bounds(self.pos)
             THEN [ret |-> FALSE, self |-> self]
             ELSE [ret |-> TRUE, self |-> [self EXCEPT !.pos = new_pos]]

\* move stepping against the heading
move_backwards(self) ==
    IF ~self.placed
    THEN [ret |-> FALSE, self |-> self]
    ELSE LET new_pos == [i \in 1..3 |-> self.pos[i] - self.heading_vector[i]]
         IN  IF ~check_pos_in_bounds(new_pos)
             THEN [ret |-> FALSE, self |-> self]
             ELSE [ret |-> TRUE, self |-> [self EXCEPT !.pos = new_pos]]

\* Robot.move
move(self) ==
    IF ~self.placed
    THEN [ret |-> FALSE, self |-> self]
    ELSE LET new_pos == np_add(self.pos, self.heading_vector)
         IN  IF ~check_pos_in_bounds(new_pos)
             THEN [ret |-> FALSE, self |-> self]
             ELSE [ret |-> TRUE, self |-> [self EXCEPT !.pos = new_pos]]

\* left without the test of `placed`
left_unguarded(self) ==
    [ret |-> TRUE,
     self |-> [self EXCEPT !.heading_vector =
                   np_round(apply(ROT_LEFT, self.heading_vector))]]

\* Robot.left
left(self) ==
    IF ~self.placed
    THEN [ret |-> FALSE, self |-> self]
    ELSE [ret |-> TRUE,
          self |-> [self EXCEPT !.heading_vector =
                        np_round(apply(ROT_LEFT, self.heading_vector))]]

\* Robot.right
right(self) ==
    IF ~self.placed
    THEN [ret |-> FALSE, self |-> self]
    ELSE [ret |-> TRUE,
          self |-> [self EXCEPT !.heading_vector =
                        np_round(apply(ROT_RIGHT, self.heading_vector))]]

\* report without the check of placed
report_unguarded(self) ==
    LET direction_str == get_compass_direction_from_dirvec(self.heading_vector)
    IN  int_str(self.pos[1]) \o "," \o int_str(self.pos[2]) \o "," \o direction_str

\* report printing the coordinates in the order y,x
report_yx(self) ==
    IF ~self.placed
    THEN NOT_PLACED_MSG
    ELSE LET direction_str == get_compass_direction_from_dirvec(self.heading_vector)
         IN  int_str(self.pos[2]) \o "," \o int_str(self.pos[1]) \o "," \o direction_str

\* Robot.report
report(self) ==
    IF ~self.placed
    THEN NOT_PLACED_MSG
    ELSE LET direction_str == get_compass_direction_from_dirvec(self.heading_vector)
         IN  int_str(self.pos[1]) \o "," \o int_str(self.pos[2]) \o "," \o direction_str

\* Robot.parse_command_input, the conversion loop: params_casted
params_casted(params_found, valid_param_types) ==
    [i \in 1..Len(valid_param_types) |->
        IF valid_param_types[i] = "int" THEN int(params_found[i])
        ELSE str(params_found[i])]

\* parse_command_input without the check that a verb supports parameters
parse_command_input_drops_params(command_str) ==
    LET verb_params_split == split(command_str, " ")
        input_has_params == Len(verb_params_split) > 1
        matches == {i \in 1..Len(COMMANDS_AND_ARGS) :
                        str(verb_params_split[1]) = COMMANDS_AND_ARGS[i][1]}
    IN  IF matches = {}
        THEN <<"error", <<>> >>
        ELSE
        LET found_valid_verb == CHOOSE i \in matches : \A j \in matches : i <= j
            cverb == COMMANDS_AND_ARGS[found_valid_verb][1]
            valid_param_types == COMMANDS_AND_ARGS[found_valid_verb][2]
        IN  IF ~input_has_params
            THEN IF Len(valid_param_types) > 0
                 THEN <<"error", <<>> >>
                 ELSE <<cverb, <<>> >>
            ELSE IF Len(valid_param_types) = 0
            THEN <<cverb, <<>> >>
            ELSE
            LET params_found == split(verb_params_split[2], ",")
            IN  IF Len(params_found) # Len(valid_param_types)
                THEN <<"error", <<>> >>
                ELSE IF \E i \in 1..Len(valid_param_types) :
                            valid_param_types[i] = "int" /\ ~int_ok(params_found[i])
                THEN <<"error", <<>> >>
                ELSE <<cverb, params_casted(params_found, valid_param_types)>>

\* Robot.parse_command_input: <<verb, params>>, or <<"error", <<>>>>
parse_command_input(command_str) ==
    LET verb_params_split == split(command_str, " ")
        input_has_params == Len(verb_params_split) > 1
        matches == {i \in 1..Len(COMMANDS_AND_ARGS) :
                        str(verb_params_split[1]) = COMMANDS_AND_ARGS[i][1]}
    IN  IF matches = {}
        THEN <<"error", <<>> >>
        ELSE
        LET found_valid_verb == CHOOSE i \in matches : \A j \in matches : i <= j
            cverb == COMMANDS_AND_ARGS[found_valid_verb][1]
            valid_param_types == COMMANDS_AND_ARGS[found_valid_verb][2]
        IN  IF ~input_has_params
            THEN IF Len(valid_param_types) > 0
                 THEN <<"error", <<>> >>
                 ELSE <<cverb, <<>> >>
            ELSE IF Len(valid_param_types) = 0
            THEN <<"error", <<>> >>
            ELSE
            LET params_found == split(verb_params_split[2], ",")
            IN  IF Len(params_found) # Len(valid_param_types)
                THEN <<"error", <<>> >>
                ELSE IF \E i \in 1..Len(valid_param_types) :
                            valid_param_types[i] = "int" /\ ~int_ok(params_found[i])
                THEN <<"error", <<>> >>
                ELSE <<cverb, params_casted(params_found, valid_param_types)>>

-----------------------------------------------------------------------------
(* Input lines: what the user types (main.py) or a test lists (test_robot.py) *)

C_PLACE == <<"P", "L", "A", "C", "E">>
C_MOVE == <<"M", "O", "V", "E">>
C_LEFT == <<"L", "E", "F", "T">>
C_RIGHT == <<"R", "I", "G", "H", "T">>
C_REPORT == <<"R", "E", "P", "O", "R", "T">>
C_HELP == <<"H", "E", "L", "P">>
C_EXIT == <<"E", "X", "I", "T">>

C_NORTH == <<"N", "O", "R", "T", "H">>
C_SOUTH == <<"S", "O", "U", "T", "H">>
C_EAST == <<"E", "A", "S", "T">>
C_WEST == <<"W", "E", "S", "T">>

COMPASS_CHARS == {C_NORTH, C_SOUTH, C_EAST, C_WEST}

SP == <<" ">>
CM == <<",">>

RECURSIVE NatChars(_)
NatChars(n) ==
    IF n < 10 THEN <<DIGITS[n + 1]>>
    ELSE NatChars(n \div 10) \o <<DIGITS[(n % 10) + 1]>>

\* the decimal text of an integer
IntChars(n) == IF n < 0 THEN <<"-">> \o NatChars(0 - n) ELSE NatChars(n)

\* the line "PLACE x,y,d"
PlaceLine(x, y, d) == C_PLACE \o SP \o IntChars(x) \o CM \o IntChars(y) \o CM \o d

GridCoords == TABLE_DIM_MIN..TABLE_DIM_MAX

OffCoords ==
    ((TABLE_DIM_MIN - Margin)..(TABLE_DIM_MIN - 1))
        \cup ((TABLE_DIM_MAX + 1)..(TABLE_DIM_MAX + Margin))

\* every cell of the table, and cells off the table: x off it (y on or off
\* it, on either side) and y off it with x on it
PlaceCoords ==
    (GridCoords \X GridCoords)
        \cup (OffCoords \X (OffCoords \cup {TABLE_DIM_MAX}))
        \cup ({TABLE_DIM_MIN} \X OffCoords)

PlaceLines == {PlaceLine(c[1], c[2], d) : c \in PlaceCoords, d \in COMPASS_CHARS}

BareLines == {C_MOVE, C_LEFT, C_RIGHT, C_REPORT, C_HELP, C_EXIT}

\* lines that are not of the plain forms above
OddLines == {
    <<>>,                                                   \* ""
    C_PLACE,                                                \* "PLACE"
    C_PLACE \o <<"1", ",", "2", ",">> \o C_EAST,            \* "PLACE1,2,EAST"
    C_PLACE \o SP \o <<"1", " ", "2", " ">> \o C_EAST,      \* "PLACE 1 2 EAST"
    C_PLACE \o SP \o <<"1", ".", "0", ",", "2", ".", "0", ",">> \o C_EAST,
                                                            \* "PLACE 1.0,2.0,EAST"
    C_PLACE \o SP \o <<"2", ".", "5", ",", "1", ",">> \o C_NORTH,
                                                            \* "PLACE 2.5,1,NORTH"
    C_PLACE \o SP \o <<"1", ",", "2", ".", "5", ",">> \o C_NORTH,
                                                            \* "PLACE 1,2.5,NORTH"
    C_PLACE \o SP \o <<"1", ",", "2">>,                     \* "PLACE 1,2"
    C_PLACE \o SP \o <<"1", ",", "2", ",">>,                \* "PLACE 1,2,"
    C_PLACE \o SP \o <<"1", ",", "2", ",", "F", "O", "O">>, \* "PLACE 1,2,FOO"
    C_PLACE \o SP \o <<"7", ",", "7", ",", "F", "O", "O">>, \* "PLACE 7,7,FOO"
    C_PLACE \o SP \o <<"1", ",", "2", ",", "n", "o", "r", "t", "h">>,
                                                            \* "PLACE 1,2,north"
    PlaceLine(1, 2, C_NORTH) \o SP \o <<"X">>,              \* "PLACE 1,2,NORTH X"
    PlaceLine(1, 2, C_NORTH) \o SP,                         \* "PLACE 1,2,NORTH "
    C_PLACE \o SP \o SP \o <<"1", ",", "2", ",">> \o C_NORTH,
                                                            \* "PLACE  1,2,NORTH"
    C_PLACE \o SP \o <<"1", ",", "2", ",">> \o C_NORTH \o CM \o <<"3">>,
                                                            \* "PLACE 1,2,NORTH,3"
    C_PLACE \o SP \o <<"+", "1", ",", "\t", "2", ",">> \o C_SOUTH,
                                                            \* "PLACE +1,<tab>2,SOUTH"
    C_PLACE \o SP \o <<"1", "_", "0", ",", "2", ",">> \o C_SOUTH,
                                                            \* "PLACE 1_0,2,SOUTH"
    C_PLACE \o SP \o <<"x", ",", "2", ",">> \o C_SOUTH,     \* "PLACE x,2,SOUTH"
    C_MOVE \o SP,                                           \* "MOVE "
    SP \o C_MOVE,                                           \* " MOVE"
    C_MOVE \o SP \o <<"1">>,                                \* "MOVE 1"
    C_REPORT \o SP \o <<"1", ",", "2">>,                    \* "REPORT 1,2"
    <<"m", "o", "v", "e">>,                                 \* "move"
    <<"J", "U", "M", "P">>,                                 \* "JUMP"
    <<"e", "r", "r", "o", "r">>,                            \* "error"
    PlaceLine(-1, 7, C_EAST)                                \* "PLACE -1,7,EAST"
    }

InputLines == PlaceLines \cup BareLines \cup OddLines

-----------------------------------------------------------------------------
(* One pass of the driver's loop body: parse_command_input, then the case   *)
(* of execute_parsed_command that the parsed verb selects                   *)

\* verb, params = r.parse_command_input(line), for every line of the model
ParseTable == [line \in InputLines |-> parse_command_input(line)]

\* what every pass records: the line read and its parse
Parsed(line) ==
    /\ input_str' = line
    /\ verb' = ParseTable[line][1]
    /\ params' = ParseTable[line][2]

\* case "PLACE" where place does not catch the KeyError of a direction
\* name that is not in the table
ExecPlace_KeyError_escapes(line) ==
    /\ ParseTable[line][1] = "PLACE"
    /\ Parsed(line)
    /\ LET p == ParseTable[line][2]
           res == place(r, p[1], p[2], p[3])
       IN  IF /\ check_pos_in_bounds(<<p[1], p[2], 0>>)
              /\ p[3] \notin DOMAIN DIRVECTOR_FROM_COMPASS_DIRECTION
           THEN r' = r /\ success' = None /\ exit_code' = <<1>>
           ELSE r' = res.self /\ success' = <<res.ret>> /\ exit_code' = exit_code
    /\ output' = ""

\* case "PLACE"
ExecPlace(line) ==
    /\ ParseTable[line][1] = "PLACE"
    /\ Parsed(line)
    /\ LET p == ParseTable[line][2]
           res == place(r, p[1], p[2], p[3])
       IN  /\ r' = res.self
           /\ success' = <<res.ret>>
    /\ output' = ""
    /\ UNCHANGED exit_code

\* case "MOVE"
ExecMove(line) ==
    /\ ParseTable[line][1] = "MOVE"
    /\ Parsed(line)
    /\ LET res == move(r)
       IN  /\ r' = res.self
           /\ success' = <<res.ret>>
    /\ output' = ""
    /\ UNCHANGED exit_code

\* case "LEFT"
ExecLeft(line) ==
    /\ ParseTable[line][1] = "LEFT"
    /\ Parsed(line)
    /\ LET res == left(r)
       IN  /\ r' = res.self
           /\ success' = <<res.ret>>
    /\ output' = ""
    /\ UNCHANGED exit_code

\* case "RIGHT"
ExecRight(line) ==
    /\ ParseTable[line][1] = "RIGHT"
    /\ Parsed(line)
    /\ LET res == right(r)
       IN  /\ r' = res.self
           /\ success' = <<res.ret>>
    /\ output' = ""
    /\ UNCHANGED exit_code

\* case "REPORT"
ExecReport(line) ==
    /\ ParseTable[line][1] = "REPORT"
    /\ Parsed(line)
    /\ success' = <<TRUE>>
    /\ output' = report(r)
    /\ UNCHANGED <<r, exit_code>>

\* case "EXIT": sys.exit(0) leaves the call without a return value
ExecExit(line) ==
    /\ ParseTable[line][1] = "EXIT"
    /\ Parsed(line)
    /\ success' = None
    /\ exit_code' = <<0>>
    /\ UNCHANGED <<r, output>>

\* case "HELP"
ExecHelp(line) ==
    /\ ParseTable[line][1] = "HELP"
    /\ Parsed(line)
    /\ success' = <<TRUE>>
    /\ output' = ""
    /\ UNCHANGED <<r, exit_code>>

\* case _ that also puts a fresh robot in place of the old one
ExecNothing_resets(line) ==
    /\ ParseTable[line][1] \notin
           {"PLACE", "MOVE", "LEFT", "RIGHT", "REPORT", "EXIT", "HELP"}
    /\ Parsed(line)
    /\ success' = None
    /\ output' = ""
    /\ r' = Robot
    /\ UNCHANGED exit_code

\* case _: "Nothing to be executed"
ExecNothing(line) ==
    /\ ParseTable[line][1] \notin
           {"PLACE", "MOVE", "LEFT", "RIGHT", "REPORT", "EXIT", "HELP"}
    /\ Parsed(line)
    /\ success' = None
    /\ output' = ""
    /\ UNCHANGED <<r, exit_code>>

-----------------------------------------------------------------------------
(* main.py: the console loop *)

Init ==
    /\ r = Robot
    /\ input_str = <<>>
    /\ verb = ""
    /\ params = <<>>
    /\ success = None
    /\ output = ""
    /\ exit_code = <<>>
    /\ commands = <<>>
    /\ idx = 0

\* while True: input_str = input(), any line the user may type
Console(line) ==
    /\ exit_code = <<>>
    /\ line \in InputLines
    /\ UNCHANGED <<commands, idx>>

PLACE == \E line \in InputLines : Console(line) /\ ExecPlace(line)

MOVE == \E line \in InputLines : Console(line) /\ ExecMove(line)

LEFT == \E line \in InputLines : Console(line) /\ ExecLeft(line)

RIGHT == \E line \in InputLines : Console(line) /\ ExecRight(line)

REPORT == \E line \in InputLines : Console(line) /\ ExecReport(line)

EXIT == \E line \in InputLines : Console(line) /\ ExecExit(line)

HELP == \E line \in InputLines : Console(line) /\ ExecHelp(line)

NOTHING == \E line \in InputLines : Console(line) /\ ExecNothing(line)

\* except KeyboardInterrupt: the loop is left and the script ends
KeyboardInterrupt ==
    /\ exit_code = <<>>
    /\ exit_code' = <<0>>
    /\ UNCHANGED <<r, input_str, verb, params, success, output, commands, idx>>

\* input() at the end of standard input raises EOFError, which the handler
\* for KeyboardInterrupt does not catch: the script ends with a traceback
\* and exit status 1
EOFError ==
    /\ exit_code = <<>>
    /\ exit_code' = <<1>>
    /\ UNCHANGED <<r, input_str, verb, params, success, output, commands, idx>>

Next ==
    \/ PLACE
    \/ MOVE
    \/ LEFT
    \/ RIGHT
    \/ REPORT
    \/ EXIT
    \/ HELP
    \/ NOTHING
    \/ KeyboardInterrupt
    \/ EOFError

Spec == Init /\ [][Next]_vars

-----------------------------------------------------------------------------
(* test_robot.py: exec_robot_commands and the command lists it is run on *)

test_example_case_a == <<PlaceLine(0, 0, C_NORTH), C_MOVE, C_REPORT>>

test_example_case_b == <<PlaceLine(0, 0, C_NORTH), C_LEFT, C_REPORT>>

test_example_case_c ==
    <<PlaceLine(1, 2, C_EAST), C_MOVE, C_MOVE, C_LEFT, C_MOVE, C_REPORT>>

test_forget_place == <<C_MOVE, C_MOVE, C_LEFT, C_MOVE, C_REPORT>>

test_place_override ==
    <<C_MOVE, C_MOVE, C_LEFT, PlaceLine(1, 2, C_EAST), C_MOVE, C_REPORT,
      PlaceLine(1, 2, C_EAST), C_REPORT>>

test_right == <<PlaceLine(3, 2, C_SOUTH), C_RIGHT, C_REPORT>>

test_complex_move ==
    <<PlaceLine(3, 3, C_NORTH), C_MOVE, C_LEFT, C_MOVE, C_LEFT, C_MOVE, C_RIGHT,
      C_LEFT, C_LEFT, C_MOVE, C_REPORT>>

test_not_placing_out_of_bounds == <<PlaceLine(-1, 7, C_EAST), C_REPORT>>

test_wrong_input_recovery ==
    <<C_PLACE \o SP \o <<"1", " ", "2", " ">> \o C_EAST, PlaceLine(3, 4, C_WEST),
      C_REPORT>>

\* a list that stops the harness: sys.exit(0) raises out of the loop
exit_list == <<C_HELP, C_EXIT, C_REPORT>>

\* "PLACE x,y,d", k times "MOVE", "REPORT"
MoveList(x, y, d, k) ==
    <<PlaceLine(x, y, d)>> \o [i \in 1..k |-> C_MOVE] \o <<C_REPORT>>

\* test_not_moving_out_of_bounds (PLACE 1,2,EAST and five MOVE), test_place
\* and test_move, for every pose and every number of moves up to MaxMoves
MoveLists ==
    {MoveList(x, y, d, k) :
        x \in GridCoords, y \in GridCoords, d \in COMPASS_CHARS, k \in 0..MaxMoves}

\* the sequences of LEFT and RIGHT of length n
RECURSIVE Turns(_)
Turns(n) ==
    IF n = 0 THEN {<<>>}
    ELSE {<<t>> \o ts : t \in {C_LEFT, C_RIGHT}, ts \in Turns(n - 1)}

\* test_left, test_right and the turns of test_complex_move, for every pose:
\* "PLACE x,y,d", up to MaxTurns turns, "MOVE", "REPORT"
TurnLists ==
    {<<PlaceLine(x, y, d)>> \o ts \o <<C_MOVE, C_REPORT>> :
        x \in GridCoords, y \in GridCoords, d \in COMPASS_CHARS,
        ts \in UNION {Turns(n) : n \in 0..MaxTurns}}

\* the poses test_place_override and the example cases place the robot at
OverridePoses ==
    {<<0, 0, C_NORTH>>, <<1, 2, C_EAST>>, <<3, 4, C_WEST>>, <<4, 0, C_SOUTH>>}

\* test_place_override, for every first pose: "PLACE", one command,
\* a second "PLACE", "REPORT"
OverrideLists ==
    {<<PlaceLine(x, y, d), c, PlaceLine(q[1], q[2], q[3]), C_REPORT>> :
        x \in GridCoords, y \in GridCoords, d \in COMPASS_CHARS,
        c \in {C_MOVE, C_LEFT, C_RIGHT}, q \in OverridePoses}

\* the lines parse_command_input answers with ("error", [])
SentinelLines == {line \in InputLines : ParseTable[line][1] = "error"}

\* test_wrong_input_1, _2, _3 and test_wrong_input_recovery, for every
\* malformed line: the line before a "PLACE", "REPORT", and the line between
\* a "PLACE" and "MOVE", "REPORT"
ErrorLists ==
    {<<bad, PlaceLine(q[1], q[2], q[3]), C_REPORT>> :
        bad \in SentinelLines, q \in OverridePoses}
    \cup
    {<<PlaceLine(q[1], q[2], q[3]), bad, C_MOVE, C_REPORT>> :
        bad \in SentinelLines, q \in OverridePoses}

CommandLists ==
    {test_example_case_a, test_example_case_b, test_example_case_c,
     test_forget_place, test_place_override, test_right, test_complex_move,
     test_not_placing_out_of_bounds, test_wrong_input_recovery, exit_list}
        \cup MoveLists \cup TurnLists \cup OverrideLists \cup ErrorLists

\* r = Robot(); output = ""
InitTest ==
    /\ r = Robot
    /\ input_str = <<>>
    /\ verb = ""
    /\ params = <<>>
    /\ success = None
    /\ output = ""
    /\ exit_code = <<>>
    /\ commands \in CommandLists
    /\ idx = 0

\* for c in commands: the next entry of the list
Harness(line) ==
    /\ exit_code = <<>>
    /\ idx < Len(commands)
    /\ line = commands[idx + 1]
    /\ idx' = idx + 1
    /\ UNCHANGED commands

TestPLACE == \E line \in InputLines : Harness(line) /\ ExecPlace(line)

TestMOVE == \E line \in InputLines : Harness(line) /\ ExecMove(line)

TestLEFT == \E line \in InputLines : Harness(line) /\ ExecLeft(line)

TestRIGHT == \E line \in InputLines : Harness(line) /\ ExecRight(line)

TestREPORT == \E line \in InputLines : Harness(line) /\ ExecReport(line)

TestEXIT == \E line \in InputLines : Harness(line) /\ ExecExit(line)

TestHELP == \E line \in InputLines : Harness(line) /\ ExecHelp(line)

TestNOTHING == \E line \in InputLines : Harness(line) /\ ExecNothing(line)

NextTest ==
    \/ TestPLACE
    \/ TestMOVE
    \/ TestLEFT
    \/ TestRIGHT
    \/ TestREPORT
    \/ TestEXIT
    \/ TestHELP
    \/ TestNOTHING

SpecTest == InitTest /\ [][NextTest]_vars

-----------------------------------------------------------------------------
(* Vocabulary of the properties *)

HEADINGS == {"NORTH", "SOUTH", "EAST", "WEST"}

\* (x,y) is a cell of the 5 x 5 table
OnTable(x, y) == 0 <= x /\ x <= 4 /\ 0 <= y /\ y <= 4

\* the parameters of a PLACE command that names a cell of the table and a heading
ValidPlace(p) == OnTable(p[1], p[2]) /\ p[3] \in HEADINGS

\* the text "x,y,HEADING"
PoseText(x, y, h) == ToString(x) \o "," \o ToString(y) \o "," \o h

\* the step is one pass of the driver's loop that ran the command v
Ran(v) == verb' = v /\ exit_code' = exit_code /\ idx' \in {idx, idx + 1}

-----------------------------------------------------------------------------
(* C1: after any sequence of input lines parsed and executed on a fresh     *)
(* robot, whenever placed is true the position (x,y) has 0 <= x <= 4 and    *)
(* 0 <= y <= 4.                                                             *)
C1_PlacedOnTable == r.placed => OnTable(r.pos[1], r.pos[2])

\* the robot stands on the east edge facing east and a MOVE was just refused
C1_Witness ==
    /\ r.placed
    /\ r.pos = <<4, 2, 0>>
    /\ r.heading_vector = <<1, 0, 0>>
    /\ verb = "MOVE"
    /\ success = <<FALSE>>

(* C2: for every cell (x,y) of the table and every heading, PLACE x,y,h     *)
(* succeeds from any prior state, placed or not, and a REPORT issued        *)
(* immediately afterwards returns exactly "x,y,HEADING".                    *)
C2_Step ==
    /\ (Ran("PLACE") /\ ValidPlace(params')) =>
            /\ success' = <<TRUE>>
            /\ report(r') = PoseText(params'[1], params'[2], params'[3])
    /\ (verb = "PLACE" /\ ValidPlace(params) /\ Ran("REPORT")) =>
            output' = PoseText(params[1], params[2], params[3])

C2_PlaceThenReport == [][C2_Step]_vars

\* REPORT has just answered "3,2,NORTH" (test_place)
C2_Witness ==
    /\ verb = "REPORT"
    /\ output = "3,2,NORTH"
    /\ r.pos = <<3, 2, 0>>
    /\ r.placed

(* C3: PLACE with (x,y) off the table or with a heading other than NORTH,   *)
(* SOUTH, EAST, WEST fails and leaves position, heading and placed as they  *)
(* were; a REPORT that follows gives the not-placed message for a           *)
(* never-placed robot and the old pose for a placed one.                    *)
C3_Step ==
    /\ (Ran("PLACE") /\ ~ValidPlace(params')) =>
            /\ success' = <<FALSE>>
            /\ r' = r
    /\ (verb = "PLACE" /\ ~ValidPlace(params) /\ Ran("REPORT")) =>
            output' = IF r.placed
                      THEN PoseText(r.pos[1], r.pos[2],
                               get_compass_direction_from_dirvec(r.heading_vector))
                      ELSE NOT_PLACED_MSG

C3_RejectedPlaceKeepsState == [][C3_Step]_vars

\* a placed robot has just refused "PLACE 1,2,FOO"
C3_Witness ==
    /\ r.placed
    /\ r.pos = <<3, 4, 0>>
    /\ verb = "PLACE"
    /\ params = <<1, 2, "FOO">>
    /\ success = <<FALSE>>

\* the name the program gives the robot's heading
HeadingOf(self) == get_compass_direction_from_dirvec(self.heading_vector)

\* X axis EAST, Y axis NORTH: the change of (x,y) that one step makes
AxisStep(h) ==
    CASE h = "NORTH" -> <<0, 1>>
      [] h = "SOUTH" -> <<0, -1>>
      [] h = "EAST"  -> <<1, 0>>
      [] h = "WEST"  -> <<-1, 0>>
      [] OTHER -> <<0, 0>>

Min(a, b) == IF a <= b THEN a ELSE b

Max(a, b) == IF a >= b THEN a ELSE b

\* the cell k steps from (x,y) in direction h, stopping at the table's edge
EndCell(x, y, h, k) ==
    CASE h = "NORTH" -> <<x, Min(y + k, 4)>>
      [] h = "SOUTH" -> <<x, Max(y - k, 0)>>
      [] h = "EAST"  -> <<Min(x + k, 4), y>>
      [] h = "WEST"  -> <<Max(x - k, 0), y>>

\* every generated list "PLACE x,y,h", k times "MOVE", "REPORT" with its data
MoveCases ==
    {[list |-> MoveList(x, y, d, k), x |-> x, y |-> y, h |-> str(d), k |-> k] :
        x \in 0..4, y \in 0..4, d \in COMPASS_CHARS, k \in 0..MaxMoves}

(* C4: for a placed robot, a MOVE whose target cell is off the table fails  *)
(* and leaves position, heading and placed unchanged; so PLACE x,y,h and    *)
(* then k MOVE commands end k cells further but no further than the edge    *)
(* cell in that direction (PLACE 1,2,EAST and five MOVE report 4,2,EAST).   *)
C4_Step ==
    /\ (/\ Ran("MOVE")
        /\ r.placed
        /\ ~OnTable(r.pos[1] + AxisStep(HeadingOf(r))[1],
                    r.pos[2] + AxisStep(HeadingOf(r))[2])) =>
            /\ success' = <<FALSE>>
            /\ r' = r
    /\ (Ran("REPORT") /\ idx' = Len(commands')) =>
            \A c \in MoveCases :
                commands' = c.list =>
                    LET e == EndCell(c.x, c.y, c.h, c.k)
                    IN  output' = PoseText(e[1], e[2], c.h)

C4_BlockedMoveKeepsState == [][C4_Step]_vars

\* test_not_moving_out_of_bounds has run to its end
C4_Witness ==
    /\ commands = MoveList(1, 2, C_EAST, 5)
    /\ idx = Len(commands)
    /\ output = "4,2,EAST"
    /\ r.pos = <<4, 2, 0>>

(* C5: while the robot has never been placed, every MOVE, LEFT and RIGHT    *)
(* fails, REPORT yields the not-placed message instead of coordinates, and  *)
(* placed stays false with position and heading at their initial values.    *)
C5_UnplacedRejectsAll ==
    ~r.placed =>
        /\ r = [pos |-> <<0, 0, 0>>, heading_vector |-> <<0, 0, 0>>, placed |-> FALSE]
        /\ verb \in {"MOVE", "LEFT", "RIGHT"} => success = <<FALSE>>
        /\ verb = "REPORT" => output = NOT_PLACED_MSG

\* a never-placed robot has just refused LEFT
C5_Witness ==
    /\ ~r.placed
    /\ verb = "LEFT"
    /\ success = <<FALSE>>
    /\ output = ""

(* C6: once placed is true it stays true: no command, whether it succeeds,  *)
(* fails or fails to parse, takes the robot from PLACED back to UNPLACED.   *)
C6_PlacedStaysPlaced == [][r.placed => r'.placed]_vars

\* a placed robot has just been sent "PLACE 1 2 EAST", which does not parse
C6_Witness ==
    /\ r.placed
    /\ input_str = C_PLACE \o SP \o <<"1", " ", "2", " ">> \o C_EAST
    /\ verb = "error"
    /\ success = None

\* the heading left of h, and right of h
LeftOf(h) ==
    CASE h = "NORTH" -> "WEST"
      [] h = "WEST"  -> "SOUTH"
      [] h = "SOUTH" -> "EAST"
      [] h = "EAST"  -> "NORTH"
      [] OTHER -> "none"

RightOf(h) ==
    CASE h = "NORTH" -> "EAST"
      [] h = "EAST"  -> "SOUTH"
      [] h = "SOUTH" -> "WEST"
      [] h = "WEST"  -> "NORTH"
      [] OTHER -> "none"

(* C7: for a placed robot LEFT always succeeds and maps NORTH->WEST,        *)
(* WEST->SOUTH, SOUTH->EAST, EAST->NORTH, and RIGHT always succeeds and     *)
(* maps NORTH->EAST, EAST->SOUTH, SOUTH->WEST, WEST->NORTH; neither changes *)
(* the position or the placed flag, also on an edge or corner cell.         *)
C7_Step ==
    /\ (Ran("LEFT") /\ r.placed) =>
            /\ success' = <<TRUE>>
            /\ HeadingOf(r') = LeftOf(HeadingOf(r))
            /\ r'.pos = r.pos
            /\ r'.placed
    /\ (Ran("RIGHT") /\ r.placed) =>
            /\ success' = <<TRUE>>
            /\ HeadingOf(r') = RightOf(HeadingOf(r))
            /\ r'.pos = r.pos
            /\ r'.placed

C7_TurnTables == [][C7_Step]_vars

\* a robot in the north-east corner has just turned left to face WEST
C7_Witness ==
    /\ r.placed
    /\ r.pos = <<4, 4, 0>>
    /\ verb = "LEFT"
    /\ success = <<TRUE>>
    /\ HeadingOf(r) = "WEST"

(* C8: the X axis points EAST and the Y axis NORTH: a successful MOVE adds  *)
(* 1 to x facing EAST, subtracts 1 from x facing WEST, adds 1 to y facing   *)
(* NORTH and subtracts 1 from y facing SOUTH, and leaves the other          *)
(* coordinate and the heading unchanged; PLACE 1,2,EAST, MOVE, MOVE, LEFT,  *)
(* MOVE, REPORT yields "3,3,NORTH".                                         *)
C8_Step ==
    /\ (Ran("MOVE") /\ success' = <<TRUE>>) =>
            /\ HeadingOf(r) \in HEADINGS
            /\ r'.pos[1] = r.pos[1] + AxisStep(HeadingOf(r))[1]
            /\ r'.pos[2] = r.pos[2] + AxisStep(HeadingOf(r))[2]
            /\ r'.heading_vector = r.heading_vector
    /\ (verb = "PLACE" /\ success = <<TRUE>> /\ Ran("MOVE") /\ success' = <<TRUE>>) =>
            /\ r'.pos[1] = r.pos[1] + AxisStep(params[3])[1]
            /\ r'.pos[2] = r.pos[2] + AxisStep(params[3])[2]
    /\ (commands' = test_example_case_c /\ idx' = Len(commands')) =>
            output' = "3,3,NORTH"

C8_AxesEastNorth == [][C8_Step]_vars

\* example case C has run to its end
C8_Witness ==
    /\ commands = test_example_case_c
    /\ idx = Len(commands)
    /\ verb = "REPORT"
    /\ output = "3,3,NORTH"

\* the displacement table as C9 states it
C9_StatedTable ==
    [NORTH |-> <<0, 1, 0>>,
     SOUTH |-> <<0, -1, 0>>,
     EAST  |-> <<-1, 0, 0>>,
     WEST  |-> <<1, 0, 0>>]

\* the displacement table with the vectors of EAST and WEST as the code has them
C9_AmendedTable ==
    [NORTH |-> <<0, 1, 0>>,
     SOUTH |-> <<0, -1, 0>>,
     EAST  |-> <<1, 0, 0>>,
     WEST  |-> <<-1, 0, 0>>]

\* a successful MOVE adds the table's vector for the current heading: the
\* heading as REPORT names it, and the heading a PLACE just before named
C9_MoveAdds(table) ==
    /\ (Ran("MOVE") /\ success' = <<TRUE>>) =>
            /\ HeadingOf(r) \in HEADINGS
            /\ r'.pos = [i \in 1..3 |-> r.pos[i] + table[HeadingOf(r)][i]]
    /\ (verb = "PLACE" /\ success = <<TRUE>> /\ Ran("MOVE") /\ success' = <<TRUE>>) =>
            r'.pos = [i \in 1..3 |-> r.pos[i] + table[params[3]][i]]

(* C9 as stated: the table used by move() is NORTH -> (0,1), SOUTH ->       *)
(* (0,-1), EAST -> (-1,0), WEST -> (1,0), and a successful move() sets the  *)
(* position to the old position plus that vector for the current heading.   *)
C9_Original == [][C9_MoveAdds(C9_StatedTable)]_vars

(* C9, amended: the table used by move() is NORTH -> (0,1), SOUTH ->        *)
(* (0,-1), EAST -> (1,0), WEST -> (-1,0), and a successful move() sets the  *)
(* position to the old position plus that vector for the current heading.   *)
C9_Amended == [][C9_MoveAdds(C9_AmendedTable)]_vars

\* a robot facing EAST has just moved to (2,2)
C9_Witness ==
    /\ verb = "MOVE"
    /\ success = <<TRUE>>
    /\ HeadingOf(r) = "EAST"
    /\ r.pos = <<2, 2, 0>>
    /\ output = ""

(* C10: a later successful PLACE x2,y2,h2 fully overrides the previous      *)
(* placement: after it the position is exactly (x2,y2) and the heading      *)
(* exactly h2, whatever pose the robot had reached before.                  *)
C10_Step ==
    (Ran("PLACE") /\ success' = <<TRUE>> /\ r.placed) =>
        /\ r'.pos = <<params'[1], params'[2], 0>>
        /\ HeadingOf(r') = params'[3]
        /\ r'.placed
        /\ report(r') = PoseText(params'[1], params'[2], params'[3])

C10_PlaceOverrides == [][C10_Step]_vars

\* PLACE 3,3,NORTH, LEFT, then PLACE 1,2,EAST has just been executed
C10_Witness ==
    /\ commands = <<PlaceLine(3, 3, C_NORTH), C_LEFT, PlaceLine(1, 2, C_EAST), C_REPORT>>
    /\ idx = 3
    /\ success = <<TRUE>>
    /\ r = [pos |-> <<1, 2, 0>>, heading_vector |-> <<1, 0, 0>>, placed |-> TRUE]

\* the harness has run "PLACE x,y,d" and then exactly the commands cs
RanAfterPlace(x, y, d, cs) ==
    /\ idx = 1 + Len(cs)
    /\ Len(commands) >= idx
    /\ SubSeq(commands, 1, idx) = <<PlaceLine(x, y, d)>> \o cs

(* C11: for a placed robot LEFT followed by RIGHT, and RIGHT followed by    *)
(* LEFT, restore the heading to its original value and leave the position   *)
(* unchanged, for each of the four headings and every cell of the table.    *)
C11_LeftRightRoundTrip ==
    idx = 3 =>
        \A x \in 0..4, y \in 0..4, d \in COMPASS_CHARS :
            (\/ RanAfterPlace(x, y, d, <<C_LEFT, C_RIGHT>>)
             \/ RanAfterPlace(x, y, d, <<C_RIGHT, C_LEFT>>)) =>
                /\ success = <<TRUE>>
                /\ r.placed
                /\ r.pos = <<x, y, 0>>
                /\ HeadingOf(r) = str(d)
                /\ report(r) = PoseText(x, y, str(d))

\* PLACE 4,4,SOUTH, RIGHT, LEFT has been run
C11_Witness ==
    /\ RanAfterPlace(4, 4, C_SOUTH, <<C_RIGHT, C_LEFT>>)
    /\ verb = "LEFT"
    /\ HeadingOf(r) = "SOUTH"
    /\ r.pos = <<4, 4, 0>>

\* n times the command c
Repeat(c, n) == [i \in 1..n |-> c]

(* C12: for a placed robot four consecutive LEFT, and four consecutive      *)
(* RIGHT, return the heading to its starting value from every starting      *)
(* heading, and fewer than four consecutive turns the same way never do.    *)
C12_TurnCycleOfFour ==
    \A n \in 1..4 :
        idx = 1 + n =>
            \A x \in 0..4, y \in 0..4, d \in COMPASS_CHARS :
                (\/ RanAfterPlace(x, y, d, Repeat(C_LEFT, n))
                 \/ RanAfterPlace(x, y, d, Repeat(C_RIGHT, n))) =>
                    /\ success = <<TRUE>>
                    /\ r.pos = <<x, y, 0>>
                    /\ (HeadingOf(r) = str(d)) <=> (n = 4)

\* PLACE 0,3,EAST and four RIGHT have been run
C12_Witness ==
    /\ RanAfterPlace(0, 3, C_EAST, Repeat(C_RIGHT, 4))
    /\ verb = "RIGHT"
    /\ HeadingOf(r) = "EAST"

\* the step is one pass of the driver's loop, which read the line input_str'
Pass == exit_code' = exit_code /\ exit_code = <<>> /\ idx' \in {idx, idx + 1}

\* the positions of whitespace characters in a line
Blanks(line) == {i \in 1..Len(line) : line[i] \in {" ", "\t"}}

\* a line of the form VERB, or VERB, one space, parameters, with no other
\* whitespace anywhere
WellSpaced(line) ==
    \/ Blanks(line) = {}
    \/ \E i \in 2..(Len(line) - 1) : Blanks(line) = {i} /\ line[i] = " "

(* C13: a line is accepted by the parser only in the exact form VERB or     *)
(* VERB, one space, comma-separated parameters, with no other whitespace    *)
(* anywhere: a line with any other spacing (such as "PLACE 1,2,NORTH X") is *)
(* a parse failure and does not change the robot state.                     *)
C13_Original ==
    [][(Pass /\ ~WellSpaced(input_str')) => (verb' = "error" /\ r' = r)]_vars

\* what follows "PLACE x,y," in a line that starts so
DirText(line, x, y) == SubSeq(line, Len(PlaceLine(x, y, <<>>)) + 1, Len(line))

\* "PLACE x,y,text" where the text is one parameter and no direction name
BadDirPlace(line, x, y) ==
    /\ Len(line) >= Len(PlaceLine(x, y, <<>>))
    /\ SubSeq(line, 1, Len(PlaceLine(x, y, <<>>))) = PlaceLine(x, y, <<>>)
    /\ DirText(line, x, y) \notin COMPASS_CHARS
    /\ \A i \in 1..Len(DirText(line, x, y)) :
           DirText(line, x, y)[i] \notin {" ", "\t", ","}

\* the coordinates x, y for which a line is "PLACE x,y,text", per odd line
\* (every line of PlaceLines ends in a direction name)
BadDirCoords ==
    [line \in OddLines |->
        {c \in (-1..7) \X (-1..7) : BadDirPlace(line, c[1], c[2])}]

(* C14: the parser returns the error sentinel for a PLACE line whose third  *)
(* parameter is not exactly one of NORTH, SOUTH, EAST, WEST, so the verb    *)
(* PLACE with an unrecognised direction never leaves the parser.            *)
C14_Original ==
    (input_str \in OddLines /\ BadDirCoords[input_str] # {}) =>
        (verb = "error" /\ params = <<>>)

(* C14, amended: for a PLACE line with integer x and y whose third          *)
(* parameter is not exactly one of NORTH, SOUTH, EAST, WEST, the parser     *)
(* returns the verb PLACE with the parameters x, y and the text as it was   *)
(* written; the direction name is checked by place, which fails and leaves  *)
(* the robot state unchanged.                                                *)
C14_Step ==
    (Pass /\ input_str' \in OddLines) =>
        \A c \in BadDirCoords[input_str'] :
            /\ verb' = "PLACE"
            /\ params' = <<c[1], c[2], str(DirText(input_str', c[1], c[2]))>>
            /\ success' = <<FALSE>>
            /\ r' = r

C14_Amended == [][C14_Step]_vars

C14_Witness ==
    /\ verb = "PLACE"
    /\ params = <<1, 2, "north">>
    /\ success = <<FALSE>>
    /\ r.placed
    /\ r.pos = <<3, 3, 0>>

\* the positions of a character in a text
Positions(cs, ch) == {i \in 1..Len(cs) : cs[i] = ch}

First(cs, ch) ==
    CHOOSE i \in Positions(cs, ch) : \A j \in Positions(cs, ch) : i <= j

\* the text before the first ch, and the text after it
Before(cs, ch) ==
    IF Positions(cs, ch) = {} THEN cs
    ELSE SubSeq(cs, 1, First(cs, ch) - 1)

After(cs, ch) ==
    IF Positions(cs, ch) = {} THEN <<>>
    ELSE SubSeq(cs, First(cs, ch) + 1, Len(cs))

\* the text of a one-digit integer, and the integer a text writes
SmallInts == -9..9
IsSmallInt(cs) == \E n \in SmallInts : IntChars(n) = cs
SmallInt(cs) == CHOOSE n \in SmallInts : IntChars(n) = cs

(* C15: the parser returns the error sentinel when the verb is not one of   *)
(* PLACE, MOVE, LEFT, RIGHT, REPORT, HELP, EXIT (case-sensitive), when      *)
(* PLACE has no parameter block, when a verb without parameters is followed *)
(* by a parameter block, and when PLACE has a number of comma-separated     *)
(* parameters other than 3; it returns the verb with an empty list for a    *)
(* bare verb without parameters, and ("PLACE", [x, y, heading]) with        *)
(* integer x, y for a well-formed PLACE.  (verb is "" until the first line  *)
(* is parsed.)                                                               *)
C15_ParserCases ==
    verb # "" =>
        LET line     == input_str
            word     == Before(line, " ")
            hasBlock == Positions(line, " ") # {}
            block    == Before(After(line, " "), " ")
            count    == Cardinality(Positions(block, ",")) + 1
            sentinel == verb = "error" /\ params = <<>>
            f1       == Before(block, ",")
            f2       == Before(After(block, ","), ",")
            f3       == After(After(block, ","), ",")
        IN  /\ word \notin BareLines \cup {C_PLACE} => sentinel
            /\ (word = C_PLACE /\ ~hasBlock) => sentinel
            /\ (word \in BareLines /\ hasBlock) => sentinel
            /\ (word = C_PLACE /\ hasBlock /\ count # 3) => sentinel
            /\ line \in BareLines => (verb = str(line) /\ params = <<>>)
            /\ (/\ line = C_PLACE \o SP \o block
                /\ count = 3
                /\ IsSmallInt(f1) /\ IsSmallInt(f2) /\ f3 \in COMPASS_CHARS) =>
                    /\ verb = "PLACE"
                    /\ params = <<SmallInt(f1), SmallInt(f2), str(f3)>>

C15_Witness ==
    /\ input_str = C_REPORT \o SP \o <<"1", ",", "2">>
    /\ verb = "error"
    /\ params = <<>>
    /\ r.placed

(* C16: when the parser returns the error sentinel, executing it changes    *)
(* nothing of the robot state and does not end the loop, and a well-formed  *)
(* command right after the malformed line is applied as if the malformed    *)
(* line had never been sent: "PLACE 1 2 EAST", "PLACE 3,4,WEST", "REPORT"   *)
(* reports "3,4,WEST".                                                       *)
C16_Step ==
    (idx' = idx + 1 /\ verb' = "error") =>
        /\ r' = r
        /\ exit_code' = <<>>
        /\ output' = ""

C16_AsIfNeverSent ==
    \A q \in OverridePoses :
        /\ (/\ Len(commands) = 3 /\ idx = 3
            /\ commands[1] \in SentinelLines
            /\ commands[2] = PlaceLine(q[1], q[2], q[3])
            /\ commands[3] = C_REPORT) =>
                output = PoseText(q[1], q[2], str(q[3]))
        /\ (/\ Len(commands) = 4 /\ idx = 4
            /\ commands[1] = PlaceLine(q[1], q[2], q[3])
            /\ commands[2] \in SentinelLines
            /\ commands[3] = C_MOVE
            /\ commands[4] = C_REPORT) =>
                output = PoseText(EndCell(q[1], q[2], str(q[3]), 1)[1],
                                  EndCell(q[1], q[2], str(q[3]), 1)[2],
                                  str(q[3]))

C16_ErrorIsNoOp ==
    /\ [][C16_Step]_vars
    /\ [](commands = test_wrong_input_recovery /\ idx = 3 => output = "3,4,WEST")
    /\ []C16_AsIfNeverSent

C16_Witness ==
    /\ commands = <<PlaceLine(1, 2, C_EAST), <<"J", "U", "M", "P">>, C_MOVE, C_REPORT>>
    /\ idx = 4
    /\ output = "2,2,EAST"

\* digits, a decimal point, digits: "1.0", "2.5"
IsDecimal(cs) ==
    /\ Cardinality(Positions(cs, ".")) = 1
    /\ Before(cs, ".") # <<>>
    /\ After(cs, ".") # <<>>
    /\ \A i \in 1..Len(cs) : cs[i] = "." \/ IsDigit(cs[i])

\* "PLACE x,y,F" with x or y written with a decimal point
DecimalPlace(line) ==
    /\ Before(line, " ") = C_PLACE
    /\ \/ IsDecimal(Before(After(line, " "), ","))
       \/ IsDecimal(Before(After(After(line, " "), ","), ","))

(* C17: a PLACE whose x or y is written with a decimal point, as "1.0" or   *)
(* "2.5", is a parse failure; the number is not truncated to an integer and *)
(* the robot state does not change.                                         *)
C17_Step ==
    (Pass /\ Positions(input_str', ".") # {}) => r' = r

C17_DecimalRejected ==
    /\ [](DecimalPlace(input_str) => (verb = "error" /\ params = <<>>))
    /\ [][C17_Step]_vars

C17_Witness ==
    /\ input_str = C_PLACE \o SP \o <<"1", ",", "2", ".", "5", ",">> \o C_NORTH
    /\ verb = "error"
    /\ r.placed
    /\ r.pos = <<1, 2, 0>>

\* the step changes something a pass of the loop assigns
LineApplied == <<input_str, verb, params, success, output, r>>' #
                   <<input_str, verb, params, success, output, r>>

(* C18: for every input line other than EXIT, parsing and executing the     *)
(* line completes without an exception escaping, so the console loop goes   *)
(* on to read the next line: no failing command (unknown verb, bad          *)
(* parameters, PLACE off the table, command before placement, blocked MOVE) *)
(* ends the loop.                                                            *)
C18_Step ==
    (exit_code = <<>> /\ LineApplied /\ input_str' # C_EXIT) =>
        /\ exit_code' = <<>>
        /\ verb' # "EXIT"

C18_NoExceptionEscapes == [][C18_Step]_vars

C18_Witness ==
    /\ input_str = C_PLACE \o SP \o <<"1", ",", "2", ",", "F", "O", "O">>
    /\ success = <<FALSE>>
    /\ r.placed
    /\ exit_code = <<>>

(* C19: the loop ends only on an EXIT command or on an external             *)
(* interruption of the input loop, both with exit code 0, and after EXIT no *)
(* further line is parsed or applied.                                       *)
C19_Original ==
    /\ [](exit_code # <<>> => exit_code = <<0>>)
    /\ [][exit_code # <<>> => UNCHANGED vars]_vars

(* C20: REPORT and HELP are pure with respect to the robot state: neither   *)
(* changes position, heading or placed, whether the robot is placed or not; *)
(* REPORT returns the coordinates exactly when the robot is placed and the  *)
(* not-placed message exactly when it is not.                               *)
C20_Step ==
    /\ Ran("REPORT") =>
           /\ r' = r
           /\ r.placed =>
                  /\ output' = PoseText(r.pos[1], r.pos[2], HeadingOf(r))
                  /\ output' # NOT_PLACED_MSG
           /\ ~r.placed => output' = NOT_PLACED_MSG
    /\ Ran("HELP") => r' = r

C20_ReportHelpPure == [][C20_Step]_vars

C20_Witness ==
    /\ verb = "REPORT"
    /\ ~r.placed
    /\ output = NOT_PLACED_MSG
    /\ success = <<TRUE>>

\* the unit vectors along the two axes of the table
CardinalVectors == {<<0, 1, 0>>, <<0, -1, 0>>, <<1, 0, 0>>, <<-1, 0, 0>>}

(* C21: after any sequence of commands, whenever placed is true the stored  *)
(* heading is exactly one of the four cardinal headings, so report on a     *)
(* placed robot never yields the heading text "ERROR": neither a rejected   *)
(* PLACE with an unknown direction nor any number of LEFT and RIGHT turns   *)
(* leaves a heading outside the four values.                                 *)
C21_PlacedHeadingCardinal ==
    r.placed =>
        /\ r.heading_vector \in CardinalVectors
        /\ HeadingOf(r) \in HEADINGS
        /\ report(r) \in {PoseText(r.pos[1], r.pos[2], h) : h \in HEADINGS}
        /\ verb = "REPORT" => output = report(r)

\* a placed robot facing SOUTH has just rejected "PLACE 1,2,FOO"
C21_Witness ==
    /\ r.placed
    /\ verb = "PLACE"
    /\ params = <<1, 2, "FOO">>
    /\ success = <<FALSE>>
    /\ HeadingOf(r) = "SOUTH"

====
